---------------------------- MODULE Spec2Model ----------------------------
(***************************************************************************)
(* voice_input: the push-to-talk orchestration of VoiceInputApp            *)
(* (src/src/voice_input/app.py) over AudioRecorder                         *)
(* (src/src/voice_input/audio.py) and the single-worker executor.          *)
(*                                                                         *)
(* Threads of the program, each an interleaved process of the model:       *)
(*   - the hotkey thread, which runs the press/release callbacks and the   *)
(*     public start_recording / stop_recording / toggle_recording calls,   *)
(*     one at a time (ctl);                                                *)
(*   - the main thread, which sits in run() and executes its finally       *)
(*     block on KeyboardInterrupt (main);                                  *)
(*   - one daemon thread per successful stop_recording, running            *)
(*     _stop_and_transcribe (fin);                                         *)
(*   - the worker of ThreadPoolExecutor(max_workers=1), running            *)
(*     _transcribe_and_emit (running);                                     *)
(*   - the audio I/O thread of every started stream, running               *)
(*     AudioRecorder._callback.                                            *)
(* Time is counted in ticks of 0.1 s; `now` is the value of the latest     *)
(* time.monotonic() call, and every call returns that value or a later one.*)
(***************************************************************************)
EXTENDS Integers, Sequences, FiniteSets, TLC

\* ------------------------------------------------------------- bounds
\* Number of start_recording calls that may pass the is_recording guard.
MaxCycles == 2
\* Number of chunks one stream delivers to _callback.
MaxChunks == 1
\* Last tick of the monotonic clock.
MaxTime == 3

\* ------------------------------------------------- program constants
\* HotkeyConfig.release_timeout_s = 0.3, in ticks of 0.1 s.
ReleaseTimeout == 3
\* ThreadPoolExecutor(max_workers=1).
MaxWorkers == 1

\* Python's None as a window.
NoWindow == 0
\* The window in the foreground when cycle c captures: each cycle finds a
\* window of its own there, handle c.
ForegroundWindow(c) == c
\* recorder._stream is None.
NoStream == 0
\* The texts a TranscriptionResult may carry: "" is "no speech detected".
Texts == {"", "hello"}

VARIABLES
    is_recording,     \* VoiceInputApp._is_recording
    last_release_at,  \* VoiceInputApp._last_release_at
    active_window,    \* VoiceInputApp._active_window
    now,              \* the latest value time.monotonic() returned
    ctl,              \* the hotkey thread: [pc, op, ret]; op is "toggle" while
                      \* toggle_recording awaits its stop_recording call, ret
                      \* is the outcome of the latest call that ended
    main,             \* the main thread inside run(): its position
    hooked,           \* the hotkey handles are registered
    queue,            \* AudioRecorder._queue: the chunks, each tagged with its stream
    stream,           \* AudioRecorder._stream: a stream id or NoStream
    streams,          \* the state of every stream object the factory made
    fin,              \* the _stop_and_transcribe threads, in spawn order
    work_queue,       \* the executor's pending work items, FIFO
    running,          \* the work items a worker thread is executing
    exec_shutdown,    \* ThreadPoolExecutor._shutdown
    cycle,            \* history: start_recording calls that passed the guard
    hist,             \* history: counters of calls and outcomes
    captured,         \* history: chunks each stream put into a queue
    recog_log,        \* history: the recognizer invocations, in call order
    emitted,          \* history: the emitter calls, in call order
    emitter,          \* the TextEmitter: its configuration and its modules
    emit_call,        \* the TextEmitter.emit call under way: [pc, text,
                      \* target_window, effects, outcome]
    stop_call,        \* AudioRecorder.stop's conversion: [pc, raw_frames, samples]
    resample_call,    \* a _resample_audio call: [pc, audio, ndim, orig_rate,
                      \* target_rate, resampled, outcome]
    transcribe_call   \* SpeechRecognizer.transcribe's normalisation: [pc,
                      \* segments, normalised_segments, text]

vars == <<is_recording, last_release_at, active_window, now, ctl, main, hooked,
          queue, stream, streams, fin, work_queue, running, exec_shutdown,
          cycle, hist, captured, recog_log, emitted, emitter, emit_call,
          stop_call, resample_call, transcribe_call>>

session == <<is_recording, last_release_at, active_window>>
recorder == <<queue, stream, streams, captured>>
executor == <<work_queue, running, exec_shutdown, recog_log, emitted>>
emission == <<emitter, emit_call>>
functions == <<stop_call, resample_call, transcribe_call>>

Cycles == 1..MaxCycles

\* ---------------------------------------------------------------- Init
\* VoiceInputApp.__init__ and AudioRecorder.__init__, then run()'s
\* registration of the two hotkey callbacks.
AppInit ==
    /\ is_recording = FALSE
    /\ last_release_at = 0
    /\ active_window = NoWindow
    /\ now = 0
    /\ ctl = [pc |-> "idle", op |-> "none", ret |-> "none"]
    /\ main = "running"
    /\ hooked = TRUE
    /\ queue = <<>>
    /\ stream = NoStream
    /\ streams = [s \in Cycles |-> "unmade"]
    /\ fin = <<>>
    /\ work_queue = <<>>
    /\ running = {}
    /\ exec_shutdown = FALSE
    /\ cycle = 0
    /\ hist = [captures |-> 0, start_true |-> 0, start_raised |-> 0,
               stop_true |-> 0, aborts |-> 0, submits |-> 0]
    /\ captured = [s \in Cycles |-> 0]
    /\ recog_log = <<>>
    /\ emitted = <<>>

\* The texts and target windows a call of TextEmitter.emit is given.
TargetWindows == {NoWindow, ForegroundWindow(1)}
\* TextEmitter.paste_hotkey.
PasteHotkey == "ctrl+v"
\* What keyboard_module may be: None, or an object with send and write, with
\* write only, with send only, or with neither.
KeyboardModules == {"none", "send_write", "write", "send", "neither"}
\* What clipboard_module may be: None, an object without copy, or one with.
ClipboardModules == {"none", "no_copy", "copy"}
\* The TextEmitter instances: window_tracker is TRUE when a tracker is attached.
Emitters ==
    [insert_text : BOOLEAN, copy_to_clipboard : BOOLEAN,
     keyboard_module : KeyboardModules, clipboard_module : ClipboardModules,
     window_tracker : BOOLEAN]
\* The emitter VoiceInputApp.__init__ builds from the default configuration.
AppEmitter ==
    [insert_text |-> TRUE, copy_to_clipboard |-> TRUE,
     keyboard_module |-> "send_write", clipboard_module |-> "copy",
     window_tracker |-> TRUE]
\* No emit call is under way.
NoCall ==
    [pc |-> "idle", text |-> "", target_window |-> NoWindow, effects |-> <<>>,
     outcome |-> "none"]

\* No conversion has run in AudioRecorder.stop.
NoStop == [pc |-> "idle", raw_frames |-> <<>>, samples |-> <<>>]
\* No _resample_audio call is under way.
NoResample ==
    [pc |-> "idle", audio |-> <<>>, ndim |-> 1, orig_rate |-> 1,
     target_rate |-> 1, resampled |-> <<>>, outcome |-> "none"]
\* No SpeechRecognizer.transcribe call is under way.
NoTranscribe ==
    [pc |-> "idle", segments |-> <<>>, normalised_segments |-> <<>>, text |-> <<>>]

\* No call of the three numerical and text functions is under way.
FunctionsIdle ==
    /\ stop_call = NoStop
    /\ resample_call = NoResample
    /\ transcribe_call = NoTranscribe

\* The application as constructed, with its emitter.
Init ==
    /\ AppInit
    /\ emitter = AppEmitter
    /\ emit_call = NoCall
    /\ FunctionsIdle

\* The values a call of time.monotonic() may return.
Monotonic == now..MaxTime

\* ---------------------------------------------------- the hotkey thread
\* The hook layer delivers a press: _on_hotkey_press calls start_recording.
Press ==
    /\ hooked /\ ctl.pc = "idle"
    /\ is_recording \/ cycle < MaxCycles
    /\ ctl' = [pc |-> "sr_lock", op |-> "none", ret |-> "none"]
    /\ UNCHANGED <<emission, functions, session, now, main, hooked, recorder, fin, executor, cycle, hist>>

\* The hook layer delivers a release: _on_hotkey_release.
Release ==
    /\ hooked /\ ctl.pc = "idle"
    /\ ctl' = [pc |-> "rel_lock", op |-> "none", ret |-> "none"]
    /\ UNCHANGED <<emission, functions, session, now, main, hooked, recorder, fin, executor, cycle, hist>>

\* A direct call of stop_recording.
CallStop ==
    /\ hooked /\ ctl.pc = "idle"
    /\ ctl' = [pc |-> "st_lock", op |-> "none", ret |-> "none"]
    /\ UNCHANGED <<emission, functions, session, now, main, hooked, recorder, fin, executor, cycle, hist>>

\* A call of toggle_recording: stop_recording, and start_recording if that
\* returned False.
CallToggle ==
    /\ hooked /\ ctl.pc = "idle"
    /\ is_recording \/ cycle < MaxCycles
    /\ ctl' = [pc |-> "st_lock", op |-> "toggle", ret |-> "none"]
    /\ UNCHANGED <<emission, functions, session, now, main, hooked, recorder, fin, executor, cycle, hist>>

\* Mutant of StartRecordingLock: the is_recording guard is missing, so a
\* duplicate press starts a new session.
StartRecordingLock_NoGuard ==
    /\ ctl.pc = "sr_lock"
    /\ cycle < MaxCycles
    /\ is_recording' = TRUE
    /\ cycle' = cycle + 1
    /\ ctl' = [ctl EXCEPT !.pc = "sr_capture", !.ret = "none"]
    /\ UNCHANGED <<emission, functions, last_release_at, active_window, now, main, hooked, recorder,
                   fin, executor, hist>>

\* Mutant of StartRecordingLock: the window capture is made inside the
\* locked block.
StartRecordingLock_CaptureUnderLock ==
    /\ ctl.pc = "sr_lock"
    /\ IF is_recording
         THEN /\ ctl' = [ctl EXCEPT !.pc = "idle", !.op = "none",
                                    !.ret = "start_false"]
              /\ UNCHANGED <<is_recording, active_window, cycle, hist>>
         ELSE /\ is_recording' = TRUE
              /\ cycle' = cycle + 1
              /\ \E w \in {ForegroundWindow(cycle + 1), NoWindow} : active_window' = w
              /\ hist' = [hist EXCEPT !.captures = @ + 1]
              /\ ctl' = [ctl EXCEPT !.pc = "rs_queue", !.ret = "none"]
    /\ UNCHANGED <<emission, functions, last_release_at, now, main, hooked, recorder, fin, executor>>

\* start_recording, the block under _state_lock: the guard and the flag.
StartRecordingLock ==
    /\ ctl.pc = "sr_lock"
    /\ IF is_recording
         THEN /\ ctl' = [ctl EXCEPT !.pc = "idle", !.op = "none",
                                    !.ret = "start_false"]
              /\ UNCHANGED <<is_recording, cycle>>
         ELSE /\ is_recording' = TRUE
              /\ cycle' = cycle + 1
              /\ ctl' = [ctl EXCEPT !.pc = "sr_capture", !.ret = "none"]
    /\ UNCHANGED <<emission, functions, last_release_at, active_window, now, main, hooked, recorder,
                   fin, executor, hist>>

\* start_recording: self._active_window = self.window_tracker.capture().
StartRecordingCapture ==
    /\ ctl.pc = "sr_capture"
    /\ \E w \in {ForegroundWindow(cycle), NoWindow} : active_window' = w
    /\ hist' = [hist EXCEPT !.captures = @ + 1]
    /\ ctl' = [ctl EXCEPT !.pc = "rs_queue"]
    /\ UNCHANGED <<emission, functions, is_recording, last_release_at, now, main, hooked, recorder,
                   fin, executor, cycle>>

\* AudioRecorder.start: self._queue = queue.Queue().
RecorderStartQueue ==
    /\ ctl.pc = "rs_queue"
    /\ queue' = <<>>
    /\ ctl' = [ctl EXCEPT !.pc = "rs_factory"]
    /\ UNCHANGED <<emission, functions, session, now, main, hooked, stream, streams, captured, fin,
                   executor, cycle, hist>>

\* AudioRecorder.start: the stream factory makes the stream of this cycle and
\* it is stored in self._stream; or the factory raises.
RecorderStartFactory ==
    /\ ctl.pc = "rs_factory"
    /\ \/ /\ streams' = [streams EXCEPT ![cycle] = "made"]
          /\ stream' = cycle
          /\ ctl' = [ctl EXCEPT !.pc = "rs_start"]
       \/ /\ ctl' = [ctl EXCEPT !.pc = "sr_except"]
          /\ UNCHANGED <<stream, streams>>
    /\ UNCHANGED <<emission, functions, session, now, main, hooked, queue, captured, fin, executor,
                   cycle, hist>>

\* AudioRecorder.start: stream.start(), after which start_recording returns
\* True; or stream.start() raises.
RecorderStartStream ==
    /\ ctl.pc = "rs_start"
    /\ \/ /\ streams' = [streams EXCEPT ![cycle] = "active"]
          /\ ctl' = [ctl EXCEPT !.pc = "idle", !.op = "none", !.ret = "start_true"]
          /\ hist' = [hist EXCEPT !.start_true = @ + 1]
       \/ /\ ctl' = [ctl EXCEPT !.pc = "sr_except"]
          /\ UNCHANGED <<streams, hist>>
    /\ UNCHANGED <<emission, functions, session, now, main, hooked, queue, stream, captured, fin,
                   executor, cycle>>

\* Mutant of StartRecordingExcept: the flag is not rolled back.
StartRecordingExcept_NoRollback ==
    /\ ctl.pc = "sr_except"
    /\ active_window' = NoWindow
    /\ ctl' = [ctl EXCEPT !.pc = "idle", !.op = "none", !.ret = "start_raised"]
    /\ hist' = [hist EXCEPT !.start_raised = @ + 1]
    /\ UNCHANGED <<emission, functions, is_recording, last_release_at, now, main, hooked, recorder,
                   fin, executor, cycle>>

\* start_recording, the except block: roll back under the lock and re-raise.
StartRecordingExcept ==
    /\ ctl.pc = "sr_except"
    /\ is_recording' = FALSE
    /\ active_window' = NoWindow
    /\ ctl' = [ctl EXCEPT !.pc = "idle", !.op = "none", !.ret = "start_raised"]
    /\ hist' = [hist EXCEPT !.start_raised = @ + 1]
    /\ UNCHANGED <<emission, functions, last_release_at, now, main, hooked, recorder, fin, executor,
                   cycle>>

\* Mutant of OnHotkeyRelease: the Idle case is not handled, and every release
\* goes on to spawn a finalization.
OnHotkeyRelease_AlwaysStops ==
    /\ ctl.pc = "rel_lock"
    /\ \E t \in Monotonic : now' = t
    /\ ctl' = [ctl EXCEPT !.pc = "st_spawn"]
    /\ UNCHANGED <<emission, functions, session, main, hooked, recorder, fin, executor, cycle, hist>>

\* Mutant of OnHotkeyRelease: the debounce comparison is <= instead of <.
OnHotkeyRelease_OffByOne ==
    /\ ctl.pc = "rel_lock"
    /\ \E t \in Monotonic :
         /\ now' = t
         /\ IF ~is_recording
              THEN /\ last_release_at' =
                        IF (t - last_release_at) <= ReleaseTimeout
                          THEN last_release_at
                          ELSE t
                   /\ ctl' = [ctl EXCEPT !.pc = "idle", !.op = "none",
                                         !.ret = "release_idle"]
              ELSE /\ ctl' = [ctl EXCEPT !.pc = "st_lock"]
                   /\ UNCHANGED last_release_at
    /\ UNCHANGED <<emission, functions, is_recording, active_window, main, hooked, recorder, fin,
                   executor, cycle, hist>>

\* _on_hotkey_release: now = time.monotonic(), then under _state_lock the
\* Idle case (debounce or refresh, and return); in the Recording case the
\* lock is released and stop_recording is called.
OnHotkeyRelease ==
    /\ ctl.pc = "rel_lock"
    /\ \E t \in Monotonic :
         /\ now' = t
         /\ IF ~is_recording
              THEN /\ last_release_at' =
                        IF (t - last_release_at) < ReleaseTimeout
                          THEN last_release_at
                          ELSE t
                   /\ ctl' = [ctl EXCEPT !.pc = "idle", !.op = "none",
                                         !.ret = "release_idle"]
              ELSE /\ ctl' = [ctl EXCEPT !.pc = "st_lock"]
                   /\ UNCHANGED last_release_at
    /\ UNCHANGED <<emission, functions, is_recording, active_window, main, hooked, recorder, fin,
                   executor, cycle, hist>>

\* Mutant of StopRecordingLock: the is_recording guard is missing, so a stop
\* in Idle goes on to spawn a finalization.
StopRecordingLock_NoGuard ==
    /\ ctl.pc = "st_lock"
    /\ \E t \in Monotonic :
         /\ now' = t
         /\ is_recording' = FALSE
         /\ last_release_at' = t
         /\ ctl' = [ctl EXCEPT !.pc = "st_spawn"]
    /\ UNCHANGED <<emission, functions, active_window, main, hooked, recorder, fin, executor,
                   cycle, hist>>

\* stop_recording, the block under _state_lock.  A False return ends the
\* call; toggle_recording then calls start_recording.
StopRecordingLock ==
    /\ ctl.pc = "st_lock"
    /\ IF ~is_recording
         THEN /\ ctl' = IF ctl.op = "toggle"
                          THEN [ctl EXCEPT !.pc = "sr_lock", !.op = "none",
                                           !.ret = "stop_false"]
                          ELSE [ctl EXCEPT !.pc = "idle", !.op = "none",
                                           !.ret = "stop_false"]
              /\ UNCHANGED <<is_recording, last_release_at, now>>
         ELSE \E t \in Monotonic :
              /\ now' = t
              /\ is_recording' = FALSE
              /\ last_release_at' = t
              /\ ctl' = [ctl EXCEPT !.pc = "st_spawn", !.op = "none"]
    /\ UNCHANGED <<emission, functions, active_window, main, hooked, recorder, fin, executor,
                   cycle, hist>>

\* A new _stop_and_transcribe thread, spawned for the recording of `rec`.
NewFinalizer(rec) ==
    [pc |-> "f_read", rec |-> rec, win |-> NoWindow, frames |-> <<>>,
     outcome |-> "none"]

\* stop_recording: threading.Thread(target=self._stop_and_transcribe).start()
\* and return True.
StopRecordingSpawn ==
    /\ ctl.pc = "st_spawn"
    /\ fin' = Append(fin, NewFinalizer(cycle))
    /\ ctl' = [ctl EXCEPT !.pc = "idle", !.op = "none", !.ret = "stop_true"]
    /\ hist' = [hist EXCEPT !.stop_true = @ + 1]
    /\ UNCHANGED <<emission, functions, session, now, main, hooked, recorder, executor, cycle>>

\* ------------------------------------------------------ the audio thread
\* AudioRecorder._callback on the I/O thread of started stream s: the chunk
\* goes into whatever queue self._queue names now.
Callback(s) ==
    /\ streams[s] = "active"
    /\ captured[s] < MaxChunks
    /\ queue' = Append(queue, s)
    /\ captured' = [captured EXCEPT ![s] = @ + 1]
    /\ UNCHANGED <<emission, functions, session, now, ctl, main, hooked, stream, streams, fin,
                   executor, cycle, hist>>

\* stream.stop() on a stream object: a started stream stops delivering; a
\* closed one stays closed.
StreamStopped(st) == IF st = "closed" THEN "closed" ELSE "stopped"

\* ------------------------------------------- the finalization threads
\* _stop_and_transcribe: active_window = self._active_window.
FinRead(i) ==
    /\ fin[i].pc = "f_read"
    /\ fin' = [fin EXCEPT ![i].pc = "f_clear", ![i].win = active_window]
    /\ UNCHANGED <<emission, functions, session, now, ctl, main, hooked, recorder, executor, cycle, hist>>

\* _stop_and_transcribe: self._active_window = None.
FinClear(i) ==
    /\ fin[i].pc = "f_clear"
    /\ active_window' = NoWindow
    /\ fin' = [fin EXCEPT ![i].pc = "f_stop"]
    /\ UNCHANGED <<emission, functions, is_recording, last_release_at, now, ctl, main, hooked,
                   recorder, executor, cycle, hist>>

\* Mutant of FinStopStream: after a device error the finalization goes on
\* instead of returning.
FinStopStream_FailureGoesOn(i) ==
    /\ fin[i].pc = "f_stop"
    /\ \/ /\ streams' = IF stream = NoStream THEN streams
                        ELSE [streams EXCEPT ![stream] = StreamStopped(@)]
          /\ fin' = [fin EXCEPT ![i].pc = "f_close"]
       \/ /\ stream # NoStream
          /\ fin' = [fin EXCEPT ![i].pc = "f_close", ![i].outcome = "stop_failed"]
          /\ UNCHANGED streams
    /\ UNCHANGED <<emission, functions, session, now, ctl, main, hooked, queue, stream, captured,
                   executor, cycle, hist>>

\* AudioRecorder.stop: self._stream.stop() when self._stream is not None; a
\* device error ends _stop_and_transcribe in its except branch.
FinStopStream(i) ==
    /\ fin[i].pc = "f_stop"
    /\ \/ /\ streams' = IF stream = NoStream THEN streams
                        ELSE [streams EXCEPT ![stream] = StreamStopped(@)]
          /\ fin' = [fin EXCEPT ![i].pc = "f_close"]
       \/ /\ stream # NoStream
          /\ fin' = [fin EXCEPT ![i].pc = "done", ![i].outcome = "stop_failed"]
          /\ UNCHANGED streams
    /\ UNCHANGED <<emission, functions, session, now, ctl, main, hooked, queue, stream, captured,
                   executor, cycle, hist>>

\* AudioRecorder.stop: self._stream.close() when self._stream is not None.
FinCloseStream(i) ==
    /\ fin[i].pc = "f_close"
    /\ streams' = IF stream = NoStream THEN streams
                  ELSE [streams EXCEPT ![stream] = "closed"]
    /\ fin' = [fin EXCEPT ![i].pc = "f_drain"]
    /\ UNCHANGED <<emission, functions, session, now, ctl, main, hooked, queue, stream, captured,
                   executor, cycle, hist>>

\* AudioRecorder.stop: one turn of "while not self._queue.empty():
\* raw_frames.append(self._queue.get())"; the loop ends on an empty queue.
FinDrain(i) ==
    /\ fin[i].pc = "f_drain"
    /\ IF queue # <<>>
         THEN /\ fin' = [fin EXCEPT ![i].frames = Append(@, Head(queue))]
              /\ queue' = Tail(queue)
         ELSE /\ fin' = [fin EXCEPT ![i].pc = "f_submit"]
              /\ UNCHANGED queue
    /\ UNCHANGED <<emission, functions, session, now, ctl, main, hooked, stream, streams, captured,
                   executor, cycle, hist>>

\* The work item of self._executor.submit(self._transcribe_and_emit, samples,
\* active_window): samples are the drained chunks converted to float.
WorkItem(id, f) ==
    [id |-> id, rec |-> f.rec, samples |-> f.frames, win |-> f.win]

\* Mutant of FinSubmit: the executor accepts work after shutdown().
FinSubmit_AfterShutdown(i) ==
    /\ fin[i].pc = "f_submit"
    /\ IF fin[i].frames = <<>>
         THEN /\ fin' = [fin EXCEPT ![i].pc = "done", ![i].outcome = "empty"]
              /\ UNCHANGED <<work_queue, hist>>
         ELSE /\ work_queue' = Append(work_queue, WorkItem(hist.submits + 1, fin[i]))
              /\ hist' = [hist EXCEPT !.submits = @ + 1]
              /\ fin' = [fin EXCEPT ![i].pc = "done", ![i].outcome = "submitted"]
    /\ UNCHANGED <<emission, functions, session, now, ctl, main, hooked, recorder, running,
                   exec_shutdown, recog_log, emitted, cycle>>

\* Mutant of FinSubmit: the empty sample vector is not discarded.
FinSubmit_NoEmptyCheck(i) ==
    /\ fin[i].pc = "f_submit"
    /\ IF exec_shutdown
         THEN /\ fin' = [fin EXCEPT ![i].pc = "done", ![i].outcome = "rejected"]
              /\ UNCHANGED <<work_queue, hist>>
         ELSE /\ work_queue' = Append(work_queue, WorkItem(hist.submits + 1, fin[i]))
              /\ hist' = [hist EXCEPT !.submits = @ + 1]
              /\ fin' = [fin EXCEPT ![i].pc = "done", ![i].outcome = "submitted"]
    /\ UNCHANGED <<emission, functions, session, now, ctl, main, hooked, recorder, running,
                   exec_shutdown, recog_log, emitted, cycle>>

\* _stop_and_transcribe: an empty sample vector is discarded; otherwise the
\* work item is submitted.  submit raises RuntimeError after shutdown().
FinSubmit(i) ==
    /\ fin[i].pc = "f_submit"
    /\ IF fin[i].frames = <<>>
         THEN /\ fin' = [fin EXCEPT ![i].pc = "done", ![i].outcome = "empty"]
              /\ UNCHANGED <<work_queue, hist>>
         ELSE IF exec_shutdown
           THEN /\ fin' = [fin EXCEPT ![i].pc = "done", ![i].outcome = "rejected"]
                /\ UNCHANGED <<work_queue, hist>>
           ELSE /\ work_queue' = Append(work_queue, WorkItem(hist.submits + 1, fin[i]))
                /\ hist' = [hist EXCEPT !.submits = @ + 1]
                /\ fin' = [fin EXCEPT ![i].pc = "done", ![i].outcome = "submitted"]
    /\ UNCHANGED <<emission, functions, session, now, ctl, main, hooked, recorder, running,
                   exec_shutdown, recog_log, emitted, cycle>>

\* ------------------------------------------------ the executor's worker
\* Mutant of WorkerAvailable: the pool has two workers.
WorkerAvailable_TwoWorkers == Cardinality(running) < MaxWorkers + 1

\* A worker thread is free to take the next work item.
WorkerAvailable == Cardinality(running) < MaxWorkers

\* The worker takes the oldest work item and runs _transcribe_and_emit, which
\* calls self.recogniser.transcribe(samples, ...) at once.
WorkerTake ==
    /\ work_queue # <<>>
    /\ WorkerAvailable
    /\ running' = running \cup {[task |-> Head(work_queue), phase |-> "transcribe",
                                 text |-> ""]}
    /\ work_queue' = Tail(work_queue)
    /\ recog_log' = Append(recog_log, Head(work_queue))
    /\ UNCHANGED <<emission, functions, session, now, ctl, main, hooked, recorder, fin, exec_shutdown,
                   emitted, cycle, hist>>

\* Mutant of TranscribeReturn: a result with empty text goes to the emitter
\* like any other.
TranscribeReturn_EmitsEmpty(r) ==
    /\ r \in running /\ r.phase = "transcribe"
    /\ \/ \E text \in Texts :
            running' = (running \ {r}) \cup
                          {[r EXCEPT !.phase = "emit", !.text = text]}
       \/ running' = running \ {r}
    /\ UNCHANGED <<emission, functions, session, now, ctl, main, hooked, recorder, fin, work_queue,
                   exec_shutdown, recog_log, emitted, cycle, hist>>

\* recogniser.transcribe returns a result: an empty text ends the work item
\* ("No speech detected"), any other text goes to the emitter; or it raises,
\* which the except branch logs.
TranscribeReturn(r) ==
    /\ r \in running /\ r.phase = "transcribe"
    /\ \/ \E text \in Texts :
            running' = IF text = ""
                         THEN running \ {r}
                         ELSE (running \ {r}) \cup
                              {[r EXCEPT !.phase = "emit", !.text = text]}
       \/ running' = running \ {r}
    /\ UNCHANGED <<emission, functions, session, now, ctl, main, hooked, recorder, fin, work_queue,
                   exec_shutdown, recog_log, emitted, cycle, hist>>

\* self.emitter.emit(result.text, target_window=active_window) returns or
\* raises; either way the work item ends.
Emit(r) ==
    /\ r \in running /\ r.phase = "emit"
    /\ \E ok \in BOOLEAN :
         emitted' = Append(emitted, [text |-> r.text, win |-> r.task.win,
                                     rec |-> r.task.rec, ok |-> ok])
    /\ running' = running \ {r}
    /\ UNCHANGED <<emission, functions, session, now, ctl, main, hooked, recorder, fin, work_queue,
                   exec_shutdown, recog_log, cycle, hist>>

\* ------------------------------------------------------ the main thread
\* run(): KeyboardInterrupt ends the sleep loop; the finally block removes
\* the hotkey handles and reads self._is_recording.
Shutdown ==
    /\ main = "running"
    /\ hooked' = FALSE
    /\ main' = IF is_recording THEN "abort" ELSE "shutdown"
    /\ UNCHANGED <<emission, functions, session, now, ctl, recorder, fin, executor, cycle, hist>>

\* AudioRecorder.abort: self._stream.stop() and self._stream.close() when
\* self._stream is not None; run() swallows a device error.
AbortStream ==
    /\ main = "abort"
    /\ hist' = [hist EXCEPT !.aborts = @ + 1]
    /\ \/ /\ streams' = IF stream = NoStream THEN streams
                        ELSE [streams EXCEPT ![stream] = "closed"]
          /\ main' = "abort_clear"
       \/ /\ stream # NoStream
          /\ main' = "shutdown"
          /\ UNCHANGED streams
    /\ UNCHANGED <<emission, functions, session, now, ctl, hooked, queue, stream, captured, fin,
                   executor, cycle>>

\* AudioRecorder.abort: self._stream = None and the queue is cleared.
AbortClear ==
    /\ main = "abort_clear"
    /\ stream' = NoStream
    /\ queue' = <<>>
    /\ main' = "shutdown"
    /\ UNCHANGED <<emission, functions, session, now, ctl, hooked, streams, captured, fin, executor,
                   cycle, hist>>

\* self._executor.shutdown(wait=True): no submit is accepted from here on.
ExecutorShutdown ==
    /\ main = "shutdown"
    /\ exec_shutdown' = TRUE
    /\ main' = "wait"
    /\ UNCHANGED <<emission, functions, session, now, ctl, hooked, recorder, fin, work_queue, running,
                   recog_log, emitted, cycle, hist>>

\* shutdown(wait=True) returns once the pending work items have run.
ExecutorDrained ==
    /\ main = "wait"
    /\ work_queue = <<>> /\ running = {}
    /\ main' = "exited"
    /\ UNCHANGED <<emission, functions, session, now, ctl, hooked, recorder, fin, executor, cycle, hist>>

\* ------------------------------------------------------ the text emitter
\* The variables of the application outside the emitter.
app == <<session, now, ctl, main, hooked, recorder, fin, executor, cycle, hist>>

\* One side effect of emit on a backend: clipboard copy(text), tracker
\* focus(win) with its result ok, keyboard send(text) or write(text).
Effect(op, text, win, ok) == [op |-> op, text |-> text, win |-> win, ok |-> ok]

\* emit returns.
EmitReturned == [emit_call EXCEPT !.pc = "done", !.outcome = "returned"]
\* emit ends with an exception.
EmitRaised == [emit_call EXCEPT !.pc = "done", !.outcome = "raised"]

\* A caller invokes emitter.emit(text, target_window=w).
EmitCall ==
    /\ emit_call.pc \in {"idle", "done"}
    /\ \E text \in Texts, w \in TargetWindows :
         emit_call' = [pc |-> "entry", text |-> text, target_window |-> w,
                       effects |-> <<>>, outcome |-> "none"]
    /\ UNCHANGED <<app, functions, emitter>>

\* Mutant of EmitEntry: the empty text is not returned on.
EmitEntry_NoEmptyCheck ==
    /\ emit_call.pc = "entry"
    /\ emit_call' =
         IF emitter.copy_to_clipboard THEN [emit_call EXCEPT !.pc = "copy"]
         ELSE IF emitter.insert_text THEN [emit_call EXCEPT !.pc = "focus"]
         ELSE EmitReturned
    /\ UNCHANGED <<app, functions, emitter>>

\* emit: "if not text: return", then the two configuration tests.
EmitEntry ==
    /\ emit_call.pc = "entry"
    /\ emit_call' =
         IF emit_call.text = "" THEN EmitReturned
         ELSE IF emitter.copy_to_clipboard THEN [emit_call EXCEPT !.pc = "copy"]
         ELSE IF emitter.insert_text THEN [emit_call EXCEPT !.pc = "focus"]
         ELSE EmitReturned
    /\ UNCHANGED <<app, functions, emitter>>

\* Mutant of EmitCopyToClipboard: a failed clipboard write is passed over and
\* emit goes on.
EmitCopyToClipboard_FailureIgnored ==
    /\ emit_call.pc = "copy"
    /\ \/ /\ emitter.clipboard_module = "copy"
          /\ emit_call' =
               [emit_call EXCEPT
                  !.effects = Append(@, Effect("copy", emit_call.text, NoWindow, TRUE)),
                  !.pc = IF emitter.insert_text THEN "focus" ELSE "done",
                  !.outcome = IF emitter.insert_text THEN "none" ELSE "returned"]
       \/ emit_call' =
               [emit_call EXCEPT
                  !.pc = IF emitter.insert_text THEN "focus" ELSE "done",
                  !.outcome = IF emitter.insert_text THEN "none" ELSE "returned"]
    /\ UNCHANGED <<app, functions, emitter>>

\* _copy_to_clipboard: RuntimeError without a module or without copy();
\* otherwise module.copy(text), which writes the clipboard or raises.
EmitCopyToClipboard ==
    /\ emit_call.pc = "copy"
    /\ IF emitter.clipboard_module # "copy"
         THEN emit_call' = EmitRaised
         ELSE \/ emit_call' =
                   [emit_call EXCEPT
                      !.effects = Append(@, Effect("copy", emit_call.text, NoWindow, TRUE)),
                      !.pc = IF emitter.insert_text THEN "focus" ELSE "done",
                      !.outcome = IF emitter.insert_text THEN "none" ELSE "returned"]
              \/ emit_call' = EmitRaised
    /\ UNCHANGED <<app, functions, emitter>>

\* Mutant of EmitFocusWindow: the tracker is never asked for focus.
EmitFocusWindow_NoRequest ==
    /\ emit_call.pc = "focus"
    /\ emit_call' = [emit_call EXCEPT !.pc = "insert"]
    /\ UNCHANGED <<app, functions, emitter>>

\* Mutant of EmitFocusWindow: a focus request answered False ends emit with
\* an error.
EmitFocusWindow_FailureFatal ==
    /\ emit_call.pc = "focus"
    /\ IF emit_call.target_window = NoWindow \/ ~emitter.window_tracker
         THEN emit_call' = [emit_call EXCEPT !.pc = "insert"]
         ELSE \E ok \in BOOLEAN :
                emit_call' =
                  [emit_call EXCEPT
                     !.effects = Append(@, Effect("focus", "", emit_call.target_window, ok)),
                     !.pc = IF ok THEN "insert" ELSE "done",
                     !.outcome = IF ok THEN "none" ELSE "raised"]
    /\ UNCHANGED <<app, functions, emitter>>

\* _focus_window: nothing without a target window or without a tracker;
\* otherwise tracker.focus(target_window), whose result (True, or False when
\* the tracker is disabled or its backend fails) is not looked at.
EmitFocusWindow ==
    /\ emit_call.pc = "focus"
    /\ IF emit_call.target_window = NoWindow \/ ~emitter.window_tracker
         THEN emit_call' = [emit_call EXCEPT !.pc = "insert"]
         ELSE \E ok \in BOOLEAN :
                emit_call' =
                  [emit_call EXCEPT
                     !.effects = Append(@, Effect("focus", "", emit_call.target_window, ok)),
                     !.pc = "insert"]
    /\ UNCHANGED <<app, functions, emitter>>

\* The keyboard module has the attribute.
HasSend == emitter.keyboard_module \in {"send_write", "send"}
HasWrite == emitter.keyboard_module \in {"send_write", "write"}

\* Mutant of EmitInsertText: the text is typed whenever write exists,
\* whether the clipboard was used or not.
EmitInsertText_AlwaysWrites ==
    /\ emit_call.pc = "insert"
    /\ \/ emit_call' =
            IF emitter.keyboard_module = "none" THEN EmitRaised
            ELSE IF HasWrite
              THEN [EmitReturned EXCEPT
                      !.effects = Append(@, Effect("write", emit_call.text, NoWindow, TRUE))]
            ELSE IF emitter.copy_to_clipboard /\ HasSend
              THEN [EmitReturned EXCEPT
                      !.effects = Append(@, Effect("send", PasteHotkey, NoWindow, TRUE))]
            ELSE EmitRaised
       \/ /\ emitter.keyboard_module # "none"
          /\ (emitter.copy_to_clipboard /\ HasSend) \/ HasWrite
          /\ emit_call' = EmitRaised
    /\ UNCHANGED <<app, functions, emitter>>

\* _insert_text: RuntimeError without a module; module.send(paste_hotkey)
\* when the clipboard was used and send exists, else module.write(text) when
\* write exists, else RuntimeError; the module call may raise.
EmitInsertText ==
    /\ emit_call.pc = "insert"
    /\ \/ emit_call' =
            IF emitter.keyboard_module = "none" THEN EmitRaised
            ELSE IF emitter.copy_to_clipboard /\ HasSend
              THEN [EmitReturned EXCEPT
                      !.effects = Append(@, Effect("send", PasteHotkey, NoWindow, TRUE))]
            ELSE IF HasWrite
              THEN [EmitReturned EXCEPT
                      !.effects = Append(@, Effect("write", emit_call.text, NoWindow, TRUE))]
            ELSE EmitRaised
       \/ /\ emitter.keyboard_module # "none"
          /\ (emitter.copy_to_clipboard /\ HasSend) \/ HasWrite
          /\ emit_call' = EmitRaised
    /\ UNCHANGED <<app, functions, emitter>>

\* A TextEmitter of any configuration, constructed beside the application.
EmitInit ==
    /\ AppInit
    /\ emitter \in Emitters
    /\ emit_call = NoCall
    /\ FunctionsIdle

EmitNext ==
    \/ EmitCall
    \/ EmitEntry
    \/ EmitCopyToClipboard
    \/ EmitFocusWindow
    \/ EmitInsertText

EmitSpec == EmitInit /\ [][EmitNext]_vars

\* ----------------------------------- AudioRecorder.stop: bytes to samples
\* What stop() does with the drained chunks (audio.py:85-95), on its own:
\* the chunks are byte strings of int16 frames, the result is a vector of
\* quotients.  A sample of the result is kept as the exact quotient
\* [num, den]; the float32 division rounds it to the nearest float32, which
\* is monotone and leaves -1.0 and 1.0 fixed, and the spacing of float32
\* near 1 (2^-23) is far below 1/32767, so a quotient is inside [-1, 1]
\* exactly when its float32 value is.

MaxFrames == 1
Bytes == 0 .. 255
SampleBytes == 2
Int16Max == 32767

\* One chunk put on the queue by _callback: bytes(indata) of one int16 frame.
Chunks == [1 .. SampleBytes -> Bytes]

\* b"".join(raw_frames)
RECURSIVE JoinBytes(_)
JoinBytes(frames) ==
    IF frames = <<>> THEN <<>> ELSE Head(frames) \o JoinBytes(Tail(frames))

\* np.frombuffer(raw_audio, dtype=int16): little-endian two's complement.
FromBuffer(raw_audio) ==
    [k \in 1 .. (Len(raw_audio) \div SampleBytes) |->
        LET unsigned == raw_audio[2 * k - 1] + 256 * raw_audio[2 * k]
        IN  IF unsigned > Int16Max THEN unsigned - 2 * (Int16Max + 1)
            ELSE unsigned]

\* float(np.iinfo(dtype).max)
MaxValue == Int16Max

\* int_samples.astype(np.float32) / max_value
FloatSamples(int_samples) ==
    [k \in DOMAIN int_samples |-> [num |-> int_samples[k], den |-> MaxValue]]

\* stop() finds nothing buffered and returns np.zeros(0).
RecorderStopEmpty ==
    /\ stop_call.pc = "called"
    /\ JoinBytes(stop_call.raw_frames) = <<>>
    /\ stop_call' = [stop_call EXCEPT !.pc = "returned", !.samples = <<>>]
    /\ UNCHANGED <<app, emission, resample_call, transcribe_call>>

\* stop() decodes the joined bytes and divides by the format's maximum.
RecorderStopConvert ==
    /\ stop_call.pc = "called"
    /\ JoinBytes(stop_call.raw_frames) # <<>>
    /\ stop_call' =
         [stop_call EXCEPT
            !.pc = "returned",
            !.samples = FloatSamples(FromBuffer(JoinBytes(stop_call.raw_frames)))]
    /\ UNCHANGED <<app, emission, resample_call, transcribe_call>>

\* stop() is called with any buffer of at most MaxFrames chunks.
StopInit ==
    /\ AppInit
    /\ emitter = AppEmitter
    /\ emit_call = NoCall
    /\ resample_call = NoResample
    /\ transcribe_call = NoTranscribe
    /\ \E n \in 0 .. MaxFrames : \E frames \in [1 .. n -> Chunks] :
         stop_call = [pc |-> "called", raw_frames |-> frames, samples |-> <<>>]

StopNext ==
    \/ RecorderStopEmpty
    \/ RecorderStopConvert

StopSpec == StopInit /\ [][StopNext]_vars

\* --------------------------- SpeechRecognizer.transcribe: normalisation
\* What transcribe() does with the segments the model returned
\* (transcriber.py:100-105), on its own.  A text is a sequence of
\* one-character strings.

MaxTextLen == 4
MaxSegments == 3
Whitespace == {" "}
Characters == {"a"} \cup Whitespace
RawTexts == UNION {[1 .. n -> Characters] : n \in 0 .. MaxTextLen}

\* str.lstrip()
RECURSIVE LStrip(_)
LStrip(text) ==
    IF text # <<>> /\ Head(text) \in Whitespace THEN LStrip(Tail(text)) ELSE text

\* str.rstrip()
RECURSIVE RStrip(_)
RStrip(text) ==
    IF text # <<>> /\ text[Len(text)] \in Whitespace
    THEN RStrip(SubSeq(text, 1, Len(text) - 1))
    ELSE text

\* str.strip()
Strip(text) == RStrip(LStrip(text))

\* str.split(): the maximal runs of non-whitespace characters, in order.
RECURSIVE Split(_)
Split(text) ==
    LET rest == LStrip(text)
        ends == {j \in DOMAIN rest : rest[j] \in Whitespace}
        stop == IF ends = {} THEN Len(rest) + 1
                ELSE CHOOSE j \in ends : \A m \in ends : j <= m
    IN  IF rest = <<>> THEN <<>>
        ELSE <<SubSeq(rest, 1, stop - 1)>> \o Split(SubSeq(rest, stop, Len(rest)))

\* sep.join(parts)
RECURSIVE Join(_, _)
Join(sep, parts) ==
    IF parts = <<>> THEN <<>>
    ELSE IF Len(parts) = 1 THEN parts[1]
    ELSE parts[1] \o sep \o Join(sep, Tail(parts))

\* A variant of _clean_text that trims but keeps internal whitespace.
CleanText_TrimOnly(text) == Strip(text)

\* _clean_text
CleanText(text) == Join(<<" ">>, Split(Strip(text)))

\* [Segment(text=_clean_text(seg.text), ...) for seg in segments
\*  if getattr(seg, "text", "").strip()]
RECURSIVE NormalisedSegments(_)
NormalisedSegments(segments) ==
    IF segments = <<>> THEN <<>>
    ELSE IF Strip(Head(segments)) # <<>>
         THEN <<CleanText(Head(segments))>> \o NormalisedSegments(Tail(segments))
         ELSE NormalisedSegments(Tail(segments))

\* transcribe() builds normalised_segments from the model's segments.
TranscribeSegments ==
    /\ transcribe_call.pc = "called"
    /\ transcribe_call' =
         [transcribe_call EXCEPT
            !.pc = "normalised",
            !.normalised_segments = NormalisedSegments(transcribe_call.segments)]
    /\ UNCHANGED <<app, emission, stop_call, resample_call>>

\* transcribe() joins the surviving texts and returns the result.
TranscribeText ==
    /\ transcribe_call.pc = "normalised"
    /\ transcribe_call' =
         [transcribe_call EXCEPT
            !.pc = "returned",
            !.text = Strip(Join(<<" ">>, transcribe_call.normalised_segments))]
    /\ UNCHANGED <<app, emission, stop_call, resample_call>>

\* The model returned any sequence of at most MaxSegments raw segments.
TranscribeInit ==
    /\ AppInit
    /\ emitter = AppEmitter
    /\ emit_call = NoCall
    /\ stop_call = NoStop
    /\ resample_call = NoResample
    /\ \E n \in 0 .. MaxSegments : \E segments \in [1 .. n -> RawTexts] :
         transcribe_call =
           [pc |-> "called", segments |-> segments,
            normalised_segments |-> <<>>, text |-> <<>>]

TranscribeNext ==
    \/ TranscribeSegments
    \/ TranscribeText

TranscribeSpec == TranscribeInit /\ [][TranscribeNext]_vars

\* ------------------------------------------------------- _resample_audio
\* _resample_audio (transcriber.py:47-63) on its own.  A sample is the exact
\* quotient [num, den]; rates are small positive integers, for which the
\* float64 product len * ratio is never within rounding error of a half
\* unless it is exactly a half, so that round() is computed exactly here.

MaxAudioLen == 4
MaxRate == 3
Rates == 1 .. MaxRate
SampleValues == {[num |-> 0, den |-> 1], [num |-> 1, den |-> 1]}
Audio == UNION {[1 .. n -> SampleValues] : n \in 0 .. MaxAudioLen}

\* Python's round() of the quotient num/den (num >= 0, den > 0): to the
\* nearest integer, a half to the even neighbour.
Round(num, den) ==
    LET q == num \div den
        r == num % den
    IN  IF 2 * r < den THEN q
        ELSE IF 2 * r > den THEN q + 1
        ELSE IF q % 2 = 0 THEN q ELSE q + 1

\* new_length = max(int(round(audio_arr.shape[0] * ratio)), 1)
NewLength(n, orig_rate, target_rate) ==
    LET rounded == Round(n * target_rate, orig_rate)
    IN  IF rounded > 1 THEN rounded ELSE 1

\* np.interp(target_positions, base_positions, audio_arr) for a non-empty
\* audio_arr: base_positions are 0 .. n-1, target_positions are new_length
\* evenly spaced points from 0 to n-1 (the single point 0 when new_length
\* is 1), and each value is read off the line through the two neighbouring
\* samples.
Interp(audio, new_length) ==
    LET n == Len(audio)
        den == IF new_length = 1 THEN 1 ELSE new_length - 1
    IN  [i \in 1 .. new_length |->
            LET pos == (i - 1) * (n - 1)          \* position, times den
                j == pos \div den                  \* base position at or below
                frac == pos - j * den              \* remainder, times den
            IN  IF j + 1 >= n
                THEN [num |-> audio[n].num * den, den |-> den]
                ELSE [num |-> audio[j + 1].num * den
                                + (audio[j + 2].num - audio[j + 1].num) * frac,
                      den |-> den]]

\* orig_rate == target_rate: the audio is returned as it is.
ResampleSameRate ==
    /\ resample_call.pc = "called"
    /\ resample_call.orig_rate = resample_call.target_rate
    /\ resample_call' =
         [resample_call EXCEPT
            !.pc = "done", !.outcome = "returned", !.resampled = resample_call.audio]
    /\ UNCHANGED <<app, emission, stop_call, transcribe_call>>

\* audio_arr.ndim != 1: ValueError.
ResampleNotMono ==
    /\ resample_call.pc = "called"
    /\ resample_call.orig_rate # resample_call.target_rate
    /\ resample_call.ndim # 1
    /\ resample_call' = [resample_call EXCEPT !.pc = "done", !.outcome = "raised"]
    /\ UNCHANGED <<app, emission, stop_call, transcribe_call>>

\* An empty audio_arr: base_positions is empty and np.interp raises
\* ValueError ("array of sample points is empty").
ResampleEmpty ==
    /\ resample_call.pc = "called"
    /\ resample_call.orig_rate # resample_call.target_rate
    /\ resample_call.ndim = 1
    /\ resample_call.audio = <<>>
    /\ resample_call' = [resample_call EXCEPT !.pc = "done", !.outcome = "raised"]
    /\ UNCHANGED <<app, emission, stop_call, transcribe_call>>

\* Linear interpolation onto new_length points.
ResampleInterpolate ==
    /\ resample_call.pc = "called"
    /\ resample_call.orig_rate # resample_call.target_rate
    /\ resample_call.ndim = 1
    /\ resample_call.audio # <<>>
    /\ resample_call' =
         [resample_call EXCEPT
            !.pc = "done",
            !.outcome = "returned",
            !.resampled =
                Interp(resample_call.audio,
                       NewLength(Len(resample_call.audio),
                                 resample_call.orig_rate,
                                 resample_call.target_rate))]
    /\ UNCHANGED <<app, emission, stop_call, transcribe_call>>

\* _resample_audio is called with any audio of at most MaxAudioLen samples,
\* mono or not, and any two rates.
ResampleInit ==
    /\ AppInit
    /\ emitter = AppEmitter
    /\ emit_call = NoCall
    /\ stop_call = NoStop
    /\ transcribe_call = NoTranscribe
    /\ \E audio \in Audio : \E ndim \in {1, 2} :
       \E orig_rate \in Rates : \E target_rate \in Rates :
         resample_call =
           [pc |-> "called", audio |-> audio, ndim |-> ndim,
            orig_rate |-> orig_rate, target_rate |-> target_rate,
            resampled |-> <<>>, outcome |-> "none"]

ResampleNext ==
    \/ ResampleSameRate
    \/ ResampleNotMono
    \/ ResampleEmpty
    \/ ResampleInterpolate

ResampleSpec == ResampleInit /\ [][ResampleNext]_vars

Next ==
    \/ Press
    \/ Release
    \/ CallStop
    \/ CallToggle
    \/ StartRecordingLock
    \/ StartRecordingCapture
    \/ RecorderStartQueue
    \/ RecorderStartFactory
    \/ RecorderStartStream
    \/ StartRecordingExcept
    \/ OnHotkeyRelease
    \/ StopRecordingLock
    \/ StopRecordingSpawn
    \/ \E s \in Cycles : Callback(s)
    \/ \E i \in DOMAIN fin : FinRead(i)
    \/ \E i \in DOMAIN fin : FinClear(i)
    \/ \E i \in DOMAIN fin : FinStopStream(i)
    \/ \E i \in DOMAIN fin : FinCloseStream(i)
    \/ \E i \in DOMAIN fin : FinDrain(i)
    \/ \E i \in DOMAIN fin : FinSubmit(i)
    \/ WorkerTake
    \/ \E r \in running : TranscribeReturn(r)
    \/ \E r \in running : Emit(r)
    \/ Shutdown
    \/ AbortStream
    \/ AbortClear
    \/ ExecutorShutdown
    \/ ExecutorDrained

Spec == Init /\ [][Next]_vars

\* =============================================================== claims
\* A step of the hotkey thread.
CtlStep == ctl' # ctl

\* C1: start_recording called while the session is Recording returns False
\* and changes nothing else: the session fields, the recorder (no second
\* backend start), the window-capture count, the finalizers and the executor
\* stay as they were; and the number of sessions started and not yet stopped
\* is never more than one.
C1_StartWhileRecordingIsNoOp ==
    /\ [][(ctl.pc = "sr_lock" /\ is_recording /\ CtlStep) =>
            /\ ctl'.pc = "idle" /\ ctl'.ret = "start_false"
            /\ UNCHANGED <<session, now, recorder, fin, executor, cycle, hist>>]_vars
    /\ [](hist.start_true - hist.stop_true \in {0, 1})

\* C1: a duplicate press has returned False while the session records.
C1_Witness ==
    /\ ctl.pc = "idle" /\ ctl.ret = "start_false"
    /\ is_recording /\ hist.start_true = 1 /\ hist.captures = 1

\* C2: is_recording is True right after a start_recording that returned
\* True, and False right after any stop_recording call and right after the
\* abort that shutdown performs on an active recording.
C2_FlagAfterStartStopAbort ==
    /\ (ctl.pc = "idle" /\ ctl.ret = "start_true") => is_recording
    /\ (ctl.pc = "idle" /\ ctl.ret \in {"stop_true", "stop_false"}) => ~is_recording
    /\ (main = "shutdown" /\ hist.aborts > 0 /\ ctl.pc = "idle") => ~is_recording

\* C3: stop_recording in Idle returns False and schedules nothing; in
\* Recording one step under the lock sets Idle and last_release_at to the
\* time just read, and the call then starts exactly one finalization and
\* returns True; so the finalizations started are as many as the
\* stop_recording calls that returned True.
C3_StopSchedulesOneFinalization ==
    /\ [][(ctl.pc = "st_lock" /\ ~is_recording /\ CtlStep) =>
            /\ ctl'.ret = "stop_false"
            /\ UNCHANGED <<session, recorder, fin, executor, hist>>]_vars
    /\ [][(ctl.pc = "st_lock" /\ is_recording /\ CtlStep) =>
            /\ ~is_recording' /\ last_release_at' = now'
            /\ ctl'.pc = "st_spawn" /\ fin' = fin]_vars
    /\ [][(ctl.pc = "st_spawn" /\ CtlStep) =>
            /\ ctl'.pc = "idle" /\ ctl'.ret = "stop_true"
            /\ Len(fin') = Len(fin) + 1]_vars
    /\ [][Len(fin') # Len(fin) => ctl.pc = "st_spawn"]_vars
    /\ [](Len(fin) = hist.stop_true)

\* C3: a stop_recording has returned False after an earlier one returned
\* True and started its finalization.
C3_Witness ==
    /\ ctl.pc = "idle" /\ ctl.ret = "stop_false"
    /\ hist.stop_true = 1 /\ Len(fin) = 1 /\ last_release_at > 0

\* The start_recording calls that are past the guard and have not returned.
StartInFlight ==
    IF ctl.pc \in {"sr_capture", "rs_queue", "rs_factory", "rs_start", "sr_except"}
      THEN 1 ELSE 0

\* C4: successful starts and stop transitions (stop_recording returning
\* True, or the shutdown abort) alternate: the stop transitions never
\* outnumber the starts (a start that holds the flag and has yet to return
\* is counted in the claim's favour), and the successful starts are never
\* more than one ahead.  Stated for the runs in which no start has raised.
C4_StartStopAlternate ==
    hist.start_raised = 0 =>
        /\ hist.stop_true + hist.aborts <= hist.start_true + StartInFlight
        /\ hist.start_true <= hist.stop_true + hist.aborts + 1

\* C5: a release handled in Idle starts no finalization and ends the
\* handler there, inside the debounce window or not, and no recording ever
\* has two finalizations.
C5_IdleReleaseNeverFinalizes ==
    /\ [][(ctl.pc = "rel_lock" /\ ~is_recording /\ CtlStep) =>
            /\ ctl'.pc = "idle"
            /\ UNCHANGED <<fin, executor, hist>>]_vars
    /\ [](\A i, j \in DOMAIN fin : fin[i].rec = fin[j].rec => i = j)

\* C5: a release was dropped inside the debounce window that a successful
\* stop opened.
C5_Witness ==
    /\ ctl.pc = "idle" /\ ctl.ret = "release_idle"
    /\ hist.stop_true = 1 /\ Len(fin) = 1
    /\ now > last_release_at /\ (now - last_release_at) < ReleaseTimeout

\* C6: a release handled in Idle leaves every session field alone when it
\* comes less than the debounce window after last_release_at, and otherwise
\* sets last_release_at to its own time; it never touches is_recording,
\* the window, the recorder or the executor; and last_release_at is written
\* by a stop or a refresh only, never by a start.
C6_IdleReleaseTouchesOnlyTimer ==
    /\ [][(ctl.pc = "rel_lock" /\ ~is_recording /\ CtlStep) =>
            /\ IF (now' - last_release_at) < ReleaseTimeout
                 THEN UNCHANGED session
                 ELSE last_release_at' = now'
            /\ UNCHANGED <<is_recording, active_window, recorder, fin, executor>>]_vars
    /\ [][last_release_at' # last_release_at =>
            ctl.pc \in {"st_lock", "rel_lock"}]_vars

\* C6: a late release in Idle refreshed last_release_at, no stop having
\* ever written it.
C6_Witness ==
    /\ ctl.pc = "idle" /\ ctl.ret = "release_idle"
    /\ hist.stop_true = 0 /\ ~is_recording
    /\ last_release_at = now /\ now >= ReleaseTimeout

\* C7: when the capture backend fails to start, start_recording rolls the
\* session back to Idle, clears the captured window and raises instead of
\* returning a boolean, no finalization is started, and the session is left
\* ready for a new start; every start past the guard returns True or raises.
C7_StartFailureRollsBack ==
    /\ [](hist.start_true + hist.start_raised + StartInFlight = cycle)
    /\ [][(ctl.pc = "sr_except" /\ CtlStep) =>
            /\ ~is_recording' /\ active_window' = NoWindow
            /\ ctl'.pc = "idle" /\ ctl'.ret = "start_raised"
            /\ UNCHANGED <<fin, executor>>]_vars
    /\ []((ctl.pc = "idle" /\ ctl.ret = "start_raised") => ~is_recording)

\* C7: a start_recording returned True after an earlier one had raised.
C7_Witness ==
    /\ hist.start_raised = 1 /\ hist.start_true = 1
    /\ ctl.pc = "idle" /\ ctl.ret = "start_true" /\ is_recording

\* C8: at most one recognizer invocation runs at a time: a work item starts
\* (its recognizer call is logged) only when no other work item is running
\* its recognizer call or its emission.
C8_OneRecognizerAtATime ==
    /\ [][Len(recog_log') > Len(recog_log) => running = {}]_vars
    /\ [](Cardinality(running) <= 1)

\* C8: the second recording's work item waits in the queue while the first
\* is running.
C8_Witness ==
    /\ work_queue # <<>>
    /\ \E r \in running : r.task.rec # Head(work_queue).rec

\* A work item carries the audio of the recording whose stop submitted it.
OwnAudio(t) ==
    /\ t.samples # <<>>
    /\ \A k \in DOMAIN t.samples : t.samples[k] = t.rec

\* C9: the recognizer is invoked in the order of the stops: of two recordings
\* that both captured audio, the one stopped first is transcribed first.
C9_RecognizerFifoByStop ==
    \A i, j \in DOMAIN recog_log :
        (i < j /\ OwnAudio(recog_log[i]) /\ OwnAudio(recog_log[j]))
            => recog_log[i].rec < recog_log[j].rec

\* The chunks of recording c among the samples of a work item.
ChunksOf(c, samples) == Cardinality({k \in DOMAIN samples : samples[k] = c})

\* C10: no completed recording is dropped: with no shutdown and no device
\* error, a finalization that has ended for a recording that captured audio
\* has submitted all of that audio to the executor.
C10_NoRecordingDropped ==
    \A i \in DOMAIN fin :
        (/\ main = "running"
         /\ fin[i].pc = "done" /\ fin[i].outcome # "stop_failed"
         /\ captured[fin[i].rec] > 0)
            => /\ fin[i].outcome = "submitted"
               /\ ChunksOf(fin[i].rec, fin[i].frames) = captured[fin[i].rec]

\* The work items the executor has accepted and not finished, or has started.
Accepted ==
    {work_queue[k] : k \in DOMAIN work_queue} \cup {r.task : r \in running}
        \cup {recog_log[k] : k \in DOMAIN recog_log}

\* C11: a finalization whose sample vector is empty submits nothing: its last
\* step leaves the executor, the submit count and the session alone; no work
\* item, recognizer invocation or emission ever exists for its recording; no
\* work item carries an empty sample vector; and every work item was
\* submitted by a finalization that had audio.
C11_EmptyAudioSubmitsNothing ==
    /\ [][\A i \in DOMAIN fin :
            (fin[i].pc = "f_submit" /\ fin[i].frames = <<>> /\ fin'[i] # fin[i]) =>
                /\ fin'[i].pc = "done" /\ fin'[i].outcome = "empty"
                /\ UNCHANGED <<session, executor, hist>>]_vars
    /\ [](\A i \in DOMAIN fin : fin[i].outcome = "empty" =>
            /\ \A t \in Accepted : t.rec # fin[i].rec
            /\ \A k \in DOMAIN emitted : emitted[k].rec # fin[i].rec)
    /\ [](\A t \in Accepted : t.samples # <<>>)
    /\ [](hist.submits =
            Cardinality({i \in DOMAIN fin : fin[i].outcome = "submitted"}))

\* C11: the first recording captured nothing and its finalization discarded
\* it; the session then recorded again and that recording was transcribed.
C11_Witness ==
    /\ Len(fin) = 2 /\ fin[1].outcome = "empty" /\ captured[1] = 0
    /\ Len(recog_log) = 1 /\ recog_log[1].rec = 2
    /\ hist.start_true = 2

\* C12: the window handed to the emitter for an utterance is the window that
\* the start_recording of the same cycle captured, or no window when that
\* capture found none: never the window another cycle captured.
C12_EmissionGetsOwnWindow ==
    \A k \in DOMAIN emitted :
        emitted[k].win \in {NoWindow, ForegroundWindow(emitted[k].rec)}

\* The positions of the hotkey thread whose step runs inside
\* "with self._state_lock"; no other thread ever takes the lock.
UnderStateLock == {"sr_lock", "sr_except", "rel_lock", "st_lock"}

\* C13: every write that changes a session field (is_recording,
\* last_release_at, active_window) is made by a step that runs under the
\* session lock.
C13_SessionWritesUnderLock ==
    [][session' # session => (CtlStep /\ ctl.pc \in UnderStateLock)]_vars

\* C14: the recorder's buffer is never drained while a started stream is
\* open and delivering chunks into it.
C14_NoDrainWhileCapturing ==
    [][(\E i \in DOMAIN fin : fin[i].pc = "f_drain" /\ fin'[i] # fin[i]) =>
          \A s \in Cycles : streams[s] # "active"]_vars

\* C15: the session lock is held for the state transition only: a step
\* under the lock performs no window capture, no backend start, stop or
\* abort, no recognizer call and no emission, and starts no thread; and a
\* step under the lock is never kept waiting by what the other threads are
\* doing.
C15_LockOnlyForTransition ==
    /\ [][(CtlStep /\ ctl.pc \in UnderStateLock) =>
            /\ UNCHANGED <<recorder, fin, executor>>
            /\ hist'.captures = hist.captures
            /\ hist'.aborts = hist.aborts]_vars
    /\ [](/\ ctl.pc = "sr_lock" => ENABLED StartRecordingLock
          /\ ctl.pc = "sr_except" => ENABLED StartRecordingExcept
          /\ ctl.pc = "rel_lock" => ENABLED OnHotkeyRelease
          /\ ctl.pc = "st_lock" => ENABLED StopRecordingLock)

\* C15: stop_recording has just made its transition under the lock while
\* the worker is inside a recognizer call.
C15_Witness ==
    /\ ctl.pc = "st_spawn" /\ hist.stop_true = 1
    /\ \E r \in running : r.phase = "transcribe"

\* C16: the recording in progress at shutdown is aborted and not finalized:
\* once abort has been called, no finalization exists for that recording and
\* none of its audio is in a work item.
C16_ShutdownAbortsNotFinalizes ==
    hist.aborts > 0 =>
        /\ \A i \in DOMAIN fin : fin[i].rec # cycle
        /\ \A t \in Accepted : ChunksOf(cycle, t.samples) = 0

\* C17: when run() has returned, no work item is queued or running and every
\* submitted work item has been run; once shutdown() has been called no work
\* item is enqueued; and after run() has returned the executor does nothing.
C17_ShutdownDrainsExecutor ==
    /\ [](main = "exited" =>
            /\ work_queue = <<>> /\ running = {}
            /\ Len(recog_log) = hist.submits)
    /\ [][exec_shutdown =>
            /\ hist'.submits = hist.submits
            /\ Len(work_queue') <= Len(work_queue)]_vars
    /\ [][main = "exited" => UNCHANGED executor]_vars

\* C17: run() has returned after a work item ran, and a finalization that
\* was still running at shutdown had its submit refused.
C17_Witness ==
    /\ main = "exited" /\ hist.submits = 1 /\ Len(recog_log) = 1
    /\ \E i \in DOMAIN fin : fin[i].outcome = "rejected"

\* A step of a finalization thread or of the worker.
PipelineStep ==
    \/ \E i \in DOMAIN fin : fin'[i] # fin[i]
    \/ running' # running
    \/ emitted' # emitted

\* C18: a failure in the pipeline ends that utterance only: no step of a
\* finalization or of the worker touches the hotkey thread, is_recording or
\* last_release_at; a finalization whose backend stop failed has ended and
\* nothing is transcribed or emitted for it; a work item that ends in its
\* recognizer call emits nothing; every emission, failed or not, ends its
\* work item; and a free worker can always take the next work item.
C18_PipelineFailureIsLocal ==
    /\ [][PipelineStep => UNCHANGED <<ctl, is_recording, last_release_at>>]_vars
    /\ [](\A i \in DOMAIN fin : fin[i].outcome = "stop_failed" =>
            /\ fin[i].pc = "done"
            /\ \A t \in Accepted : t.rec # fin[i].rec
            /\ \A k \in DOMAIN emitted : emitted[k].rec # fin[i].rec)
    /\ [][\A r \in running :
            (r.phase = "transcribe" /\ \A q \in running' : q.task # r.task) =>
                emitted' = emitted]_vars
    /\ [][Len(emitted') > Len(emitted) =>
            \E r \in running : r.phase = "emit" /\ running' = running \ {r}]_vars
    /\ []((work_queue # <<>> /\ running = {}) => ENABLED WorkerTake)

\* C18: the first utterance was lost to a backend stop failure and the
\* second was recorded, transcribed and emitted to its own window.
C18_Witness ==
    /\ Len(fin) = 2 /\ fin[1].outcome = "stop_failed"
    /\ recog_log = <<[id |-> 1, rec |-> 2, samples |-> <<2>>,
                      win |-> ForegroundWindow(2)]>>
    /\ emitted = <<[text |-> "hello", win |-> ForegroundWindow(2), rec |-> 2,
                    ok |-> TRUE]>>
    /\ ctl.pc = "idle" /\ ~is_recording

\* The side effects of the emit call so far, by name.
EffectOps == [k \in DOMAIN emit_call.effects |-> emit_call.effects[k].op]

\* s is a prefix of t.
IsPrefix(s, t) == Len(s) <= Len(t) /\ \A k \in DOMAIN s : s[k] = t[k]

\* C19: in an emit call with non-empty text, clipboard copy and text
\* insertion both enabled and a target window, made on an emitter with its
\* window tracker attached and a keyboard module offering send, the side
\* effects are at every moment a prefix of: copy of the text, focus request
\* for the target window, paste combination; and all three have been made,
\* once each, when the call returns.  In every emit call at all, a copy is
\* only ever the first effect, an injection the last, and none is repeated.
C19_EmitOrder ==
    /\ (/\ emit_call.text # ""
        /\ emitter.copy_to_clipboard /\ emitter.insert_text
        /\ emit_call.target_window # NoWindow
        /\ emitter.window_tracker /\ HasSend) =>
            /\ IsPrefix(EffectOps, <<"copy", "focus", "send">>)
            /\ \A k \in DOMAIN emit_call.effects :
                  /\ emit_call.effects[k].op = "copy" =>
                        emit_call.effects[k].text = emit_call.text
                  /\ emit_call.effects[k].op = "focus" =>
                        emit_call.effects[k].win = emit_call.target_window
                  /\ emit_call.effects[k].op = "send" =>
                        emit_call.effects[k].text = PasteHotkey
            /\ emit_call.outcome = "returned" =>
                  EffectOps = <<"copy", "focus", "send">>
    /\ \A j, k \in DOMAIN EffectOps :
          /\ EffectOps[k] = "copy" => k = 1
          /\ EffectOps[j] \in {"send", "write"} => k <= j
          /\ (j # k) => EffectOps[j] # EffectOps[k]

\* C19: such a call has returned after its copy, focus request and paste.
C19_Witness ==
    /\ emit_call.pc = "done" /\ emit_call.outcome = "returned"
    /\ emit_call.effects =
          <<Effect("copy", "hello", NoWindow, TRUE),
            Effect("focus", "", ForegroundWindow(1), TRUE),
            Effect("send", PasteHotkey, NoWindow, TRUE)>>

\* C20: an emit call with empty text makes no side effect on the clipboard,
\* the window tracker or the keyboard, whatever the configuration, the
\* modules and the target window, and it returns without an error.
C20_EmitEmptyIsNoOp ==
    emit_call.text = "" =>
        /\ emit_call.effects = <<>>
        /\ emit_call.outcome # "raised"
        /\ emit_call.pc \in {"idle", "entry", "done"}

\* C20: an emit call with empty text and a target window has returned on an
\* emitter with both outputs enabled and all its modules present.
C20_Witness ==
    /\ emit_call.pc = "done" /\ emit_call.outcome = "returned"
    /\ emit_call.text = "" /\ emit_call.target_window # NoWindow
    /\ emitter = AppEmitter

\* The emit call under way has made the side effect op.
Did(op) == \E k \in DOMAIN EffectOps : EffectOps[k] = op

\* C21: with clipboard copy enabled, an emit call with non-empty text whose
\* clipboard write failed (no module, a module without copy, or copy raising)
\* has ended with an error and has made no focus request and no injection;
\* and with clipboard copy enabled no focus request or injection is ever
\* made before the clipboard was written.
C21_ClipboardFailureIsFatal ==
    /\ (/\ emitter.copy_to_clipboard /\ emit_call.text # ""
        /\ emit_call.pc \in {"focus", "insert", "done"}
        /\ ~Did("copy")) =>
            /\ emit_call.pc = "done" /\ emit_call.outcome = "raised"
            /\ emit_call.effects = <<>>
    /\ (/\ emitter.copy_to_clipboard /\ emit_call.text # ""
        /\ emitter.clipboard_module # "copy") =>
            /\ emit_call.effects = <<>>
            /\ emit_call.outcome # "returned"

\* C21: copy() raised in a call that had insertion enabled, a window tracker
\* and a target window: the call ended with an error and no side effect.
C21_Witness ==
    /\ emit_call.pc = "done" /\ emit_call.outcome = "raised"
    /\ emit_call.effects = <<>> /\ emit_call.text # ""
    /\ emit_call.target_window # NoWindow
    /\ emitter = AppEmitter

\* C22: a focus request that fails does not end emit: whatever the tracker
\* answers, the step after the request is the injection, and a focus request
\* answered False in a call that returned is followed by the send or write.
C22_FocusFailureIsNotFatal ==
    /\ [][emit_call.pc = "focus" =>
            emit_call'.pc = "insert" /\ emit_call'.outcome = "none"]_vars
    /\ [](\A k \in DOMAIN emit_call.effects :
            (emit_call.effects[k].op = "focus" /\ emit_call.pc = "done"
               /\ emit_call.outcome = "returned") =>
                /\ k + 1 = Len(emit_call.effects)
                /\ EffectOps[k + 1] \in {"send", "write"})
    /\ [](emit_call.pc = "insert" =>
            (emitter.keyboard_module = "send_write" =>
                ENABLED (EmitInsertText /\ emit_call'.outcome = "returned")))

\* C22: the tracker answered False and the paste combination was sent after.
C22_Witness ==
    /\ emit_call.pc = "done" /\ emit_call.outcome = "returned"
    /\ emit_call.effects =
          <<Effect("copy", "hello", NoWindow, TRUE),
            Effect("focus", "", ForegroundWindow(1), FALSE),
            Effect("send", PasteHotkey, NoWindow, TRUE)>>

\* C23: the injection follows the configuration.  In a call that returned
\* with non-empty text on a keyboard module offering send and write: with
\* insertion and clipboard copy enabled the paste combination was sent and
\* the text not typed; with insertion enabled and clipboard copy disabled the
\* text was typed and no paste combination sent.  In every call: with
\* insertion disabled there is no focus request and no injection; a paste
\* combination is sent only when the clipboard was written; never both send
\* and write; a focus request is made only for a present target window.
C23_InjectionFollowsConfiguration ==
    /\ (/\ emit_call.pc = "done" /\ emit_call.outcome = "returned"
        /\ emit_call.text # "" /\ emitter.insert_text
        /\ emitter.keyboard_module = "send_write") =>
            IF emitter.copy_to_clipboard
              THEN Did("send") /\ ~Did("write")
              ELSE Did("write") /\ ~Did("send")
    /\ ~emitter.insert_text => ~Did("focus") /\ ~Did("send") /\ ~Did("write")
    /\ Did("send") => Did("copy") /\ ~Did("write")
    /\ \A k \in DOMAIN emit_call.effects :
          /\ emit_call.effects[k].op = "focus" =>
                /\ emit_call.target_window # NoWindow
                /\ emit_call.effects[k].win = emit_call.target_window
          /\ emit_call.effects[k].op = "write" =>
                emit_call.effects[k].text = emit_call.text
          /\ emit_call.effects[k].op = "send" =>
                emit_call.effects[k].text = PasteHotkey

\* C23: with clipboard copy disabled and no target window, the text was
\* typed and nothing else was done.
C23_Witness ==
    /\ emit_call.pc = "done" /\ emit_call.outcome = "returned"
    /\ ~emitter.copy_to_clipboard /\ emitter.insert_text
    /\ emit_call.target_window = NoWindow
    /\ emit_call.effects = <<Effect("write", "hello", NoWindow, TRUE)>>

\* C24: a result with empty text never reaches the emitter, and a result
\* with text reaches it once: no emit call is made with empty text; a work
\* item waits for the emitter only with a non-empty text and its emit call
\* can always be made; every emit call is made by such a work item with its
\* text and ends it; no utterance has two emit calls; and the emit calls made
\* or due never outnumber the recognizer calls.
C24_EmptyTextSkipsEmitter ==
    /\ [](\A k \in DOMAIN emitted : emitted[k].text # "")
    /\ [](\A r \in running : r.phase = "emit" => (r.text # "" /\ ENABLED Emit(r)))
    /\ [][Len(emitted') # Len(emitted) =>
            \E r \in running :
                /\ r.phase = "emit" /\ running' = running \ {r}
                /\ Len(emitted') = Len(emitted) + 1
                /\ emitted'[Len(emitted')].text = r.text
                /\ emitted'[Len(emitted')].rec = r.task.rec]_vars
    /\ [](\A j, k \in DOMAIN emitted : emitted[j].rec = emitted[k].rec => j = k)
    /\ [](Len(emitted) + Cardinality({r \in running : r.phase = "emit"})
            <= Len(recog_log))

\* C24: two utterances were transcribed and the work is over: one ended
\* without an emit call, the other had its text emitted.
C24_Witness ==
    /\ Len(recog_log) = 2 /\ running = {} /\ work_queue = <<>>
    /\ Len(emitted) = 1 /\ emitted[1].text = "hello"

\* The stream object the factory made for cycle s is open: made and not closed.
Open(s) == streams[s] \in {"made", "active", "stopped"}

\* C28: the capture stream and the buffer belong to one cycle: at most one
\* stream is open at any instant; a finalization stops and closes the stream
\* of its own cycle and no other; and the chunks a finalization drains were
\* all captured by the stream of its own cycle.  The count of open streams
\* is stated for the runs in which no start has raised.
C28_StreamScopedToCycle ==
    /\ [](hist.start_raised = 0 => Cardinality({s \in Cycles : Open(s)}) <= 1)
    /\ [][\A i \in DOMAIN fin :
            (fin[i].pc \in {"f_stop", "f_close"} /\ fin'[i] # fin[i]) =>
                \A s \in Cycles : streams'[s] # streams[s] => s = fin[i].rec]_vars
    /\ [](\A i \in DOMAIN fin : \A k \in DOMAIN fin[i].frames :
            fin[i].frames[k] = fin[i].rec)

\* A quotient num/den (den > 0) lies in [-1.0, 1.0].
InUnitRange(q) == -q.den <= q.num /\ q.num <= q.den

\* C25: every value of the vector stop() returns lies in [-1.0, 1.0],
\* whatever int16 samples were buffered, and stop() returns a zero-length
\* vector when no chunk was buffered.
C25_SamplesInUnitRange ==
    stop_call.pc = "returned" =>
        /\ \A k \in DOMAIN stop_call.samples : InUnitRange(stop_call.samples[k])
        /\ stop_call.raw_frames = <<>> => stop_call.samples = <<>>

\* A raw text has a character that is not whitespace.
HasText(text) == \E j \in DOMAIN text : text[j] \notin Whitespace

\* The positions of the raw segments that survive.
Surviving(segments) == {k \in DOMAIN segments : HasText(segments[k])}

\* The i-th smallest member of a set of positions.
Nth(S, i) == CHOOSE k \in S : Cardinality({j \in S : j < k}) = i - 1

\* The positions where a word of the text begins.
WordStarts(text) ==
    {j \in DOMAIN text :
        text[j] \notin Whitespace /\ (j = 1 \/ text[j - 1] \in Whitespace)}

\* The word of the text that begins at position j.
WordAt(text, j) ==
    SubSeq(text, j,
           CHOOSE e \in j .. Len(text) :
               /\ \A m \in j .. e : text[m] \notin Whitespace
               /\ (e = Len(text) \/ text[e + 1] \in Whitespace))

\* The words of the text, in order.
Words(text) ==
    [i \in 1 .. Cardinality(WordStarts(text)) |->
        WordAt(text, Nth(WordStarts(text), i))]

\* clean is raw trimmed and with its internal whitespace collapsed: the same
\* words in the same order, and every whitespace character of clean is one
\* space standing between two characters that are not whitespace.
IsTrimmedAndCollapsed(clean, raw) ==
    /\ Words(clean) = Words(raw)
    /\ \A j \in DOMAIN clean :
         clean[j] \in Whitespace =>
             /\ clean[j] = " "
             /\ 1 < j /\ j < Len(clean)
             /\ clean[j - 1] \notin Whitespace
             /\ clean[j + 1] \notin Whitespace

\* Where the i-th part begins (less one) in the parts joined by one character.
RECURSIVE Offset(_, _)
Offset(parts, i) ==
    IF i = 1 THEN 0 ELSE Offset(parts, i - 1) + Len(parts[i - 1]) + 1

\* text is the parts joined by a single space.
IsJoinedBySpace(text, parts) ==
    IF parts = <<>> THEN text = <<>>
    ELSE /\ Len(text) = Offset(parts, Len(parts)) + Len(parts[Len(parts)])
         /\ \A i \in DOMAIN parts :
              SubSeq(text, Offset(parts, i) + 1, Offset(parts, i) + Len(parts[i]))
                  = parts[i]
         /\ \A i \in 2 .. Len(parts) : text[Offset(parts, i)] = " "

\* C26: the segments of the result are the raw segments that have text left
\* after trimming, in their original order, each trimmed and with its
\* internal whitespace collapsed; the result text is these joined by a single
\* space, and it is empty exactly when no segment survives.
C26_RecognizerOutputNormalised ==
    transcribe_call.pc = "returned" =>
        LET segments == transcribe_call.segments
            survivors == transcribe_call.normalised_segments
            kept == Surviving(segments)
        IN  /\ Len(survivors) = Cardinality(kept)
            /\ \A i \in DOMAIN survivors :
                 IsTrimmedAndCollapsed(survivors[i], segments[Nth(kept, i)])
            /\ IsJoinedBySpace(transcribe_call.text, survivors)
            /\ (transcribe_call.text = <<>>) <=> (kept = {})

\* [" a", "a  a ", ""] gives "a a a" with 2 segments.
C26_Witness ==
    /\ transcribe_call.pc = "returned"
    /\ transcribe_call.segments =
         <<(<<" ", "a">>), (<<"a", " ", " ", "a">>), (<<>>)>>
    /\ transcribe_call.normalised_segments = <<(<<"a">>), (<<"a", " ", "a">>)>>
    /\ transcribe_call.text = <<"a", " ", "a", " ", "a">>

\* C27: for every mono input and positive rates, resample returns the input
\* unchanged when the rates are equal, and otherwise returns exactly
\* max(round(len * target / source), 1) samples (round taken as Python's,
\* a half going to the even neighbour).
C27_ResampleLength ==
    (resample_call.pc = "done" /\ resample_call.ndim = 1) =>
        /\ resample_call.outcome = "returned"
        /\ resample_call.orig_rate = resample_call.target_rate =>
             resample_call.resampled = resample_call.audio
        /\ resample_call.orig_rate # resample_call.target_rate =>
             LET wanted == Round(Len(resample_call.audio) * resample_call.target_rate,
                                 resample_call.orig_rate)
             IN  Len(resample_call.resampled) = IF wanted > 1 THEN wanted ELSE 1

=============================================================================
